---------------------------- MODULE Spec2Model ----------------------------
(***************************************************************************)
(* Subscription / usage-metering core of the Troika chatbot backend:       *)
(* the project store, the subscription evaluators, the chat route, the     *)
(* usage accumulator with its notification log, and the renewal handlers.  *)
(*                                                                         *)
(* Time is counted in hours.  Every time.Now() of one store round trip or  *)
(* one handler step reads the variable now.                                *)
(***************************************************************************)
EXTENDS Integers, Sequences, FiniteSets, TLC

(***************************************************************************)
(* Bounds of the model                                                     *)
(***************************************************************************)
\* hours that AddDate(0, 1, 0) adds (the calendar month of the model)
MonthTicks == 720
\* concurrent chat requests
MaxRequests == 2
\* concurrent calls of updateProjectTokenUsage
MaxCharges == 2
\* renew operations
MaxRenewals == 2
\* status operations (suspend, reactivate, status update) a behaviour holds
MaxAdmin == 2
\* runs of the maintenance job that are counted
MaxSweeps == 2

ProjectIds == {"p1"}
Statuses == {"active", "suspended", "expired", "deleted"}
\* monthly_token_limit values of the stored projects
LimitChoices == {10}
\* total_tokens_used values of the stored projects
\* expiry_date values of the stored projects
ExpiryChoices == {2, 800}
\* token costs an LLM completion reports
TokenCosts == {1, 3}
\* instants at which the evaluators run
EvalTimes == {0, 1, 2, 3}
\* instants at which chat requests are served
ChatTimes == {0, 3}
\* instants at which usage is charged
ChargeTimes == {0, 12, 13, 25}
ChargeUsedChoices == {5, 7}
\* error texts of a failed LLM call (rate limit, auth, timeout, unknown)
LLMErrors == {"rate limit reached", "authentication failed", "timeout",
              "no response generated"}
\* instants at which the renew operations run
RenewTimes == {0, 2, 3}
\* renewal periods asked for
MonthsChoices == {0, 1, 2, 13}
\* new_token_limit of a renewal request: absent (0) or a new ceiling
NewLimitChoices == {0, 20}
\* periods and instants of the renewals whose written fields are examined
FieldsMonths == {0, 1, 13}
FieldsTimes == {0, 3}
\* instants of the status operations: before, at and after the expiry
LifeTimes == {0, 2, 3}
\* instants of the operations on a deleted project: before and after expiry
DeletedTimes == {0, 3}
\* status values sent to the admin status update
StatusInputs == {"active"}

VARIABLES
    projects,       \* the projects collection: project_id -> document
    now,            \* the wall clock, in hours
    pendingStatus,  \* status updates issued and not yet applied by the store
    evals,          \* outcome of the last evaluator call
    requests,       \* chat requests in flight: their position and context
    chat_messages,  \* the chat_messages collection
    charges,        \* calls of updateProjectTokenUsage in flight
    notifications,  \* the notifications collection
    renewals,       \* renew operations in flight
    admin,          \* status operations (suspend, reactivate, ...) in flight
    maintenance     \* the maintenance job: its runs and what the last did

vars == <<projects, now, pendingStatus, evals, requests, chat_messages,
          charges, notifications, renewals, admin, maintenance>>

(***************************************************************************)
(* Time                                                                    *)
(***************************************************************************)
\* time.Time.After: strictly later
After(t, u) == t > u

\* time.Time.AddDate(0, months, 0)
AddDate(t, months) == t + months * MonthTicks

\* the clock advances to a later instant of S
Tick(S) ==
    /\ \E t \in S : t > now /\ now' = t
    /\ UNCHANGED <<projects, pendingStatus, evals, requests, chat_messages,
                   charges, notifications, renewals, admin, maintenance>>

(***************************************************************************)
(* Project store                                                           *)
(***************************************************************************)
Project(st, exp, used, lim, act) ==
    [status |-> st, expiry_date |-> exp, total_tokens_used |-> used,
     monthly_token_limit |-> lim, is_active |-> act, reminder_sent |-> FALSE]

SetStatusResetUsage(projs, pid, st) ==
    [projs EXCEPT ![pid].status = st, ![pid].total_tokens_used = 0]

\* UpdateOne(project_id, $set status): the write of updateProjectStatus and
\* of updateProjectStatusAsync
SetStatus(projs, pid, st) ==
    [projs EXCEPT ![pid].status = st]

\* a status update issued earlier reaches the store
ApplyStatusWrite ==
    /\ \E w \in pendingStatus :
          /\ projects' = SetStatus(projects, w.project_id, w.status)
          /\ pendingStatus' = pendingStatus \ {w}
    /\ UNCHANGED <<now, evals, requests, chat_messages, charges,
                   notifications, renewals, admin, maintenance>>

(***************************************************************************)
(* Subscription evaluators                                                 *)
(***************************************************************************)
StatusReason(st) ==
    CASE st = "expired"   -> "expired"
      [] st = "suspended" -> "suspended"
      [] st = "deleted"   -> "deleted"
      [] OTHER            -> "inactive"

Verdict(reason, issued) == [result |-> reason, issued |-> issued]

\* validateProjectSubscription with the lazy status update left out
validateProjectSubscriptionNoUpdate(p, t) ==
    IF p.status # "active" THEN Verdict(StatusReason(p.status), {})
    ELSE IF After(t, p.expiry_date) THEN Verdict("expired", {})
    ELSE IF ~p.is_active THEN Verdict("unavailable", {})
    ELSE Verdict("allowed", {})

\* middleware validateProjectSubscription: status, then expiry (issuing the
\* lazy status update), then the soft-delete flag
validateProjectSubscription(p, t) ==
    IF p.status # "active" THEN Verdict(StatusReason(p.status), {})
    ELSE IF After(t, p.expiry_date) THEN Verdict("expired", {"expired"})
    ELSE IF ~p.is_active THEN Verdict("unavailable", {})
    ELSE Verdict("allowed", {})

\* TokenLimitValidator comparing with > in place of >=
TokenLimitReachedStrict(p) == p.total_tokens_used > p.monthly_token_limit

\* the comparison of TokenLimitValidator
TokenLimitReached(p) == p.total_tokens_used >= p.monthly_token_limit

\* SubscriptionValidator followed by TokenLimitValidator, as the chat route
\* chains them: the second runs only when the first put the project in the
\* request context
EvaluateChatRoute(p, t) ==
    LET v == validateProjectSubscription(p, t) IN
    IF v.result # "allowed" THEN v
    ELSE IF TokenLimitReached(p) THEN Verdict("limit_exceeded", {})
    ELSE v

\* handlers getProjectWithValidation: status, expiry (writing the status),
\* then the token limit
getProjectWithValidation(p, t) ==
    IF p.status # "active" THEN Verdict(StatusReason(p.status), {})
    ELSE IF After(t, p.expiry_date) THEN Verdict("expired", {"expired"})
    ELSE IF p.total_tokens_used >= p.monthly_token_limit
         THEN Verdict("limit_exceeded", {})
    ELSE Verdict("allowed", {})

NoEval == [kind |-> "none"]

Evaluated(kind, pid, v) ==
    /\ evals' = [kind |-> kind, project_id |-> pid, snapshot |-> projects[pid],
                 at |-> now, result |-> v.result, issued |-> v.issued]
    /\ pendingStatus' = pendingStatus \cup
                          {[project_id |-> pid, status |-> s] : s \in v.issued}
    /\ UNCHANGED <<projects, now, requests, chat_messages, charges,
                   notifications, renewals, admin, maintenance>>

\* one evaluation on the chat route
EvalRoute(pid) ==
    Evaluated("route", pid, EvaluateChatRoute(projects[pid], now))

\* one call of getProjectWithValidation
EvalHandler(pid) ==
    Evaluated("handler", pid, getProjectWithValidation(projects[pid], now))

(***************************************************************************)
(* Chat route: POST /api/projects/:projectId/chat                          *)
(***************************************************************************)
\* middleware checkRateLimit: TRUE when the caller is within its limit (the
\* stub reports so for every caller)
checkRateLimit(identifier, limit) == TRUE

\* middleware checkProjectRateLimit
checkProjectRateLimit(p) ==
    CASE p.status = "active"    -> ~checkRateLimit(p, 60)
      [] p.status = "suspended" -> FALSE
      [] OTHER                  -> ~checkRateLimit(p, 30)

Outcome(http, status, text) == [http |-> http, status |-> status, text |-> text]
NoOutcome == Outcome(0, "", "")

\* SubscriptionValidator, TokenLimitValidator, RateLimitValidator and
\* SubscriptionHeaders in the order main registers them, for the project
\* document p read by SubscriptionValidator at time t: the response of the
\* middleware that aborts, or "next" when all four call c.Next()
Middlewares(p, t) ==
    LET v == validateProjectSubscription(p, t) IN
    IF v.result # "allowed"
    THEN Outcome(403, "subscription_blocked", v.result)
    ELSE IF TokenLimitReached(p)
    THEN Outcome(200, "limit_exceeded", "limit_exceeded")
    ELSE IF ~checkProjectRateLimit(p)
    THEN Outcome(429, "rate_limited", "rate_limited")
    ELSE Outcome(0, "next", "")

Request(pc, route, pid, seen, verdict, snap, llm, tokens, charged, out) ==
    [pc |-> pc, route |-> route, project_id |-> pid, seen |-> seen,
     verdict |-> verdict, snap |-> snap, llm |-> llm, tokens |-> tokens,
     charged |-> charged, out |-> out]

NoProject == [status |-> "none"]

\* the chat route with its middlewares left out of the registration
ChatRouteUnguarded(r, pid) ==
    /\ requests[r].pc = "idle"
    /\ requests' = [requests EXCEPT ![r] =
          Request("ProjectChatMessage", "chat", pid, NoProject, "none",
                  NoProject, "none", 0, 0, NoOutcome)]
    /\ UNCHANGED <<projects, now, pendingStatus, evals, chat_messages,
                   charges, notifications, renewals, admin, maintenance>>

\* a request on the chat route runs the middleware chain: one read of the
\* project, then either an aborting response or the handler
ChatRoute(r, pid) ==
    /\ requests[r].pc = "idle"
    /\ LET p == projects[pid]
           v == EvaluateChatRoute(p, now)
           m == Middlewares(p, now)
       IN
       /\ requests' = [requests EXCEPT ![r] =
             Request(IF m.status = "next" THEN "ProjectChatMessage" ELSE "done",
                     "chat", pid, p, v.result, NoProject, "none", 0, 0,
                     IF m.status = "next" THEN NoOutcome ELSE m)]
       /\ pendingStatus' = pendingStatus \cup
             {[project_id |-> pid, status |-> s] : s \in v.issued}
    /\ UNCHANGED <<projects, now, evals, chat_messages, charges,
                   notifications, renewals, admin, maintenance>>

\* IframeSendMessage: the legacy entry, which calls ProjectChatMessage
\* without any middleware
IframeSendMessage(r, pid) ==
    /\ requests[r].pc = "idle"
    /\ requests' = [requests EXCEPT ![r] =
          Request("ProjectChatMessage", "iframe", pid, NoProject, "none",
                  NoProject, "none", 0, 0, NoOutcome)]
    /\ UNCHANGED <<projects, now, pendingStatus, evals, chat_messages,
                   charges, notifications, renewals, admin, maintenance>>

\* ProjectChatMessage up to the LLM call: the body is bound, the project read
ProjectChatMessage(r, bodyOk) ==
    /\ requests[r].pc = "ProjectChatMessage"
    /\ requests' = [requests EXCEPT ![r] =
          IF ~bodyOk
          THEN [@ EXCEPT !.pc = "done",
                         !.out = Outcome(400, "error", "Invalid message data")]
          ELSE [@ EXCEPT !.pc = "llm",
                         !.snap = projects[requests[r].project_id]]]
    /\ UNCHANGED <<projects, now, pendingStatus, evals, chat_messages,
                   charges, notifications, renewals, admin, maintenance>>

\* ProjectChatMessage charging and going on after a failed LLM call
LLMFailureCharged(r, err) ==
    /\ requests[r].pc = "llm"
    /\ requests' = [requests EXCEPT ![r] =
          [@ EXCEPT !.pc = "inc", !.llm = err, !.tokens = 1]]
    /\ UNCHANGED <<projects, now, pendingStatus, evals, chat_messages,
                   charges, notifications, renewals, admin, maintenance>>

\* generateOpenAIResponse fails: the handler answers 500 with a fixed text
LLMFailure(r, err) ==
    /\ requests[r].pc = "llm"
    /\ requests' = [requests EXCEPT ![r] =
          [@ EXCEPT !.pc = "done", !.llm = err,
                    !.out = Outcome(500, "error", "Failed to generate response")]]
    /\ UNCHANGED <<projects, now, pendingStatus, evals, chat_messages,
                   charges, notifications, renewals, admin, maintenance>>

\* generateOpenAIResponse returns a completion and its token usage
LLMSuccess(r, tokenUsage) ==
    /\ requests[r].pc = "llm"
    /\ requests' = [requests EXCEPT ![r] =
          [@ EXCEPT !.pc = "inc", !.llm = "ok", !.tokens = tokenUsage]]
    /\ UNCHANGED <<projects, now, pendingStatus, evals, chat_messages,
                   charges, notifications, renewals, admin, maintenance>>

\* UpdateOne(project_id, $inc total_tokens_used): the store adds delta to the
\* value it holds
IncTokensUsed(projs, pid, delta) ==
    [projs EXCEPT ![pid].total_tokens_used = @ + delta]

ChatIncFromSnapshot(r) ==
    /\ requests[r].pc = "inc"
    /\ projects' = [projects EXCEPT
          ![requests[r].project_id].total_tokens_used =
              requests[r].snap.total_tokens_used + requests[r].tokens]
    /\ requests' = [requests EXCEPT ![r] =
          [@ EXCEPT !.pc = "save", !.charged = requests[r].tokens]]
    /\ UNCHANGED <<now, pendingStatus, evals, chat_messages, charges,
                   notifications, renewals, admin, maintenance>>

\* ProjectChatMessage: the $inc of the token usage
ChatInc(r) ==
    /\ requests[r].pc = "inc"
    /\ projects' = IncTokensUsed(projects, requests[r].project_id,
                                 requests[r].tokens)
    /\ requests' = [requests EXCEPT ![r] =
          [@ EXCEPT !.pc = "save", !.charged = requests[r].tokens]]
    /\ UNCHANGED <<now, pendingStatus, evals, chat_messages, charges,
                   notifications, renewals, admin, maintenance>>

\* ProjectChatMessage: the chat message is inserted and the 200 response
\* reports the usage computed from the project read before the LLM call
ChatSave(r) ==
    /\ requests[r].pc = "save"
    /\ chat_messages' = chat_messages \cup
          {[id |-> r, project_id |-> requests[r].project_id,
            session_id |-> "session", message |-> "message",
            response |-> "response",
            tokens_used |-> requests[r].tokens, rating |-> "",
            feedback |-> "", rated_at |-> 0 - 1]}
    /\ requests' = [requests EXCEPT ![r] =
          [@ EXCEPT !.pc = "done",
                    !.out = [http |-> 200, status |-> "success", text |-> "",
                             total_tokens |->
                                requests[r].snap.total_tokens_used
                                   + requests[r].tokens,
                             limit |-> requests[r].snap.monthly_token_limit]]]
    /\ UNCHANGED <<projects, now, pendingStatus, evals, charges,
                   notifications, renewals, admin, maintenance>>

(***************************************************************************)
(* Notification log                                                        *)
(***************************************************************************)
\* project_id of a notification logged with primitive.NilObjectID
NilObjectID == "nil"

\* config.LogNotification: one document {project_id, type, sent_at}; src names
\* the operation that inserted it (documents of distinct operations are
\* distinct documents, as their _id are)
LogNotification(log, pid, type, t, src) ==
    log \cup {[project_id |-> pid, type |-> type, sent_at |-> t, src |-> src]}

(***************************************************************************)
(* Admin operations on a project                                           *)
(***************************************************************************)
\* handlers DeleteProject: soft delete, then the deletion log entry
DeleteProject(pid) ==
    /\ projects' = [projects EXCEPT ![pid].status = "deleted",
                                    ![pid].is_active = FALSE]
    /\ notifications' =
          LogNotification(notifications, NilObjectID, "deletion", now, "admin")
    /\ UNCHANGED <<now, pendingStatus, evals, requests, chat_messages,
                   charges, renewals, admin, maintenance>>

\* the check of the renewal period, shared by RenewSubscription and RenewProject
ValidMonths(months) == ~(months <= 0 \/ months > 12)

RenewFieldsAlwaysReset(p, newExpiry, reset, newLimit) ==
    [p EXCEPT !.expiry_date = newExpiry,
              !.status = "active",
              !.reminder_sent = FALSE,
              !.total_tokens_used = 0,
              !.monthly_token_limit = IF newLimit > 0 THEN newLimit ELSE @]

\* the $set of a renewal: expiry, status, reminder flag, and the optional
\* usage reset and new limit
RenewFields(p, newExpiry, reset, newLimit) ==
    [p EXCEPT !.expiry_date = newExpiry,
              !.status = "active",
              !.reminder_sent = FALSE,
              !.total_tokens_used = IF reset THEN 0 ELSE @,
              !.monthly_token_limit = IF newLimit > 0 THEN newLimit ELSE @]

\* RenewSubscription computing the new expiry from the stored expiry in
\* every case
NewExpiryDateFromOld(p, t, months, fromNow) ==
    AddDate(p.expiry_date, months)

\* RenewSubscription: the new expiry date, from now when asked to or when the
\* project read is past its expiry, else from the expiry read
NewExpiryDate(p, t, months, fromNow) ==
    IF fromNow \/ After(t, p.expiry_date)
    THEN AddDate(t, months)
    ELSE AddDate(p.expiry_date, months)

\* RenewSubscription up to its store write: the period check, the read of the
\* project (getProjectByID) and the computation of the new expiry
RenewSubscriptionRead(k, pid, months, reset, newLimit, fromNow) ==
    /\ renewals[k].pc = "idle"
    /\ renewals' = [renewals EXCEPT ![k] =
          IF ~ValidMonths(months)
          THEN [pc |-> "rejected", kind |-> "RenewSubscription",
                months |-> months]
          ELSE [pc |-> "write", kind |-> "RenewSubscription",
                project_id |-> pid, months |-> months, reset |-> reset,
                new_limit |-> newLimit, from_now |-> fromNow, at |-> now,
                old_expiry |-> projects[pid].expiry_date,
                new_expiry |-> NewExpiryDate(projects[pid], now, months, fromNow)]]
    /\ UNCHANGED <<projects, now, pendingStatus, evals, requests,
                   chat_messages, charges, notifications, admin, maintenance>>

\* RenewSubscription: the UpdateOne and the renewal log entry
RenewSubscriptionWrite(k) ==
    /\ renewals[k].pc = "write"
    /\ LET r == renewals[k] IN
       /\ projects' = [projects EXCEPT ![r.project_id] =
             RenewFields(@, r.new_expiry, r.reset, r.new_limit)]
       /\ notifications' =
             LogNotification(notifications, r.project_id, "renewal", now, k)
       /\ renewals' = [renewals EXCEPT ![k] =
             [pc |-> "done", kind |-> r.kind, project_id |-> r.project_id,
              months |-> r.months, reset |-> r.reset,
              new_limit |-> r.new_limit, from_now |-> r.from_now,
              at |-> r.at, old_expiry |-> r.old_expiry]]
    /\ UNCHANGED <<now, pendingStatus, evals, requests, chat_messages, charges,
                   admin, maintenance>>

\* admin RenewProject: the period check, one UpdateOne that sets the expiry to
\* now + months, and the renewal log entry
RenewProject(k, pid, months, reset) ==
    /\ renewals[k].pc = "idle"
    /\ IF ~ValidMonths(months)
       THEN /\ renewals' = [renewals EXCEPT ![k] =
                  [pc |-> "rejected", kind |-> "RenewProject",
                   months |-> months]]
            /\ UNCHANGED <<projects, notifications>>
       ELSE /\ projects' = [projects EXCEPT ![pid] =
                  RenewFields(@, AddDate(now, months), reset, 0)]
            /\ notifications' =
                  LogNotification(notifications, NilObjectID, "renewal", now, k)
            /\ renewals' = [renewals EXCEPT ![k] =
                  [pc |-> "done", kind |-> "RenewProject", project_id |-> pid,
                   months |-> months, reset |-> reset, new_limit |-> 0,
                   at |-> now]]
    /\ UNCHANGED <<now, pendingStatus, evals, requests, chat_messages, charges,
                   admin, maintenance>>

\* Project.IsExpired
IsExpired(p, t) == After(t, p.expiry_date) \/ p.status = "expired"

\* Project.ExtendSubscription on a Project value held in memory
ExtendSubscription(p, t, months) ==
    [p EXCEPT !.expiry_date = IF IsExpired(p, t)
                              THEN AddDate(t, months)
                              ELSE AddDate(p.expiry_date, months),
              !.status = "active",
              !.reminder_sent = FALSE]

\* a caller loads the project and calls ExtendSubscription on the value; the
\* method touches the value only, the store is not written
ExtendSubscriptionCall(k, pid, months) ==
    /\ renewals[k].pc = "idle"
    /\ renewals' = [renewals EXCEPT ![k] =
          [pc |-> "done", kind |-> "ExtendSubscription", project_id |-> pid,
           months |-> months, at |-> now, before |-> projects[pid],
           value |-> ExtendSubscription(projects[pid], now, months)]]
    /\ UNCHANGED <<projects, now, pendingStatus, evals, requests,
                   chat_messages, charges, notifications, admin, maintenance>>

(***************************************************************************)
(* Initial values shared by the specifications                             *)
(***************************************************************************)
NoRequests == [r \in 1..MaxRequests |-> [pc |-> "idle"]]
NoCharges == [c \in 1..MaxCharges |-> [pc |-> "idle"]]
NoRenewals == [k \in 1..MaxRenewals |-> [pc |-> "idle"]]
NoAdmin == [a \in 1..MaxAdmin |-> [pc |-> "idle"]]
NoMaintenance == [runs |-> 0]

Quiet ==
    /\ now = 0
    /\ pendingStatus = {}
    /\ evals = NoEval
    /\ requests = NoRequests
    /\ chat_messages = {}
    /\ charges = NoCharges
    /\ notifications = {}
    /\ renewals = NoRenewals
    /\ admin = NoAdmin
    /\ maintenance = NoMaintenance

(***************************************************************************)
(* SpecEval: the evaluators applied to stored project documents.  Every    *)
(* status can be stored (UpdateProjectStatus accepts the four of them);    *)
(* DeleteProject and RenewProject run between the evaluations.             *)
(***************************************************************************)
InitEval ==
    /\ projects \in [ProjectIds ->
          {Project(st, exp, used, lim, TRUE) :
              st \in Statuses, exp \in {2}, used \in {0, 9, 10, 11},
              lim \in LimitChoices}]
    /\ Quiet

TickEval == Tick(EvalTimes)

NextEval ==
    \/ TickEval
    \/ \E pid \in ProjectIds : EvalRoute(pid)
    \/ \E pid \in ProjectIds : EvalHandler(pid)
    \/ ApplyStatusWrite
    \/ \E pid \in ProjectIds : DeleteProject(pid)
    \/ \E k \in 1..MaxRenewals, pid \in ProjectIds, reset \in BOOLEAN :
          RenewProject(k, pid, 1, reset)

SpecEval == InitEval /\ [][NextEval]_vars


(***************************************************************************)
(* SpecRenew: the three renew operations on a project of any status, before *)
(* and after its expiry.                                                   *)
(***************************************************************************)
InitRenew ==
    /\ projects \in [ProjectIds ->
          {Project(st, exp, 5, 10, TRUE) :
              st \in Statuses, exp \in ExpiryChoices}]
    /\ Quiet

TickRenew == Tick(RenewTimes)

NextRenew ==
    \/ TickRenew
    \/ \E k \in 1..MaxRenewals, pid \in ProjectIds, months \in MonthsChoices,
          fromNow \in BOOLEAN :
          RenewSubscriptionRead(k, pid, months, FALSE, 0, fromNow)
    \/ \E k \in 1..MaxRenewals : RenewSubscriptionWrite(k)
    \/ \E k \in 1..MaxRenewals, pid \in ProjectIds, months \in MonthsChoices :
          RenewProject(k, pid, months, FALSE)
    \/ \E k \in 1..MaxRenewals, pid \in ProjectIds, months \in {1, 2} :
          ExtendSubscriptionCall(k, pid, months)

SpecRenew == InitRenew /\ [][NextRenew]_vars

(***************************************************************************)
(* The fields a renewal writes (SpecFields)                                *)
(***************************************************************************)
\* reminder_sent is a stored field that the renewals clear; the store may
\* hold it set
InitFields ==
    /\ projects \in [ProjectIds ->
          {[Project(st, 2, 5, 10, TRUE) EXCEPT !.reminder_sent = rem] :
              st \in Statuses, rem \in BOOLEAN}]
    /\ Quiet

TickFields == Tick(FieldsTimes)

NextFields ==
    \/ TickFields
    \/ \E k \in 1..MaxRenewals, pid \in ProjectIds, months \in FieldsMonths,
          reset \in BOOLEAN, newLimit \in NewLimitChoices :
          RenewSubscriptionRead(k, pid, months, reset, newLimit, FALSE)
    \/ \E k \in 1..MaxRenewals : RenewSubscriptionWrite(k)
    \/ \E k \in 1..MaxRenewals, pid \in ProjectIds, months \in FieldsMonths,
          reset \in BOOLEAN :
          RenewProject(k, pid, months, reset)

SpecFields == InitFields /\ [][NextFields]_vars

(***************************************************************************)
(* SpecChat: concurrent chat requests on one project, entering through the *)
(* chat route or through IframeSendMessage.                                *)
(***************************************************************************)
InitChat ==
    /\ projects \in [ProjectIds ->
          {Project(st, 2, used, lim, act) :
              st \in Statuses, used \in {9, 10}, lim \in LimitChoices,
              act \in BOOLEAN}]
    /\ Quiet

TickChat == Tick(ChatTimes)

NextChat ==
    \/ TickChat
    \/ ApplyStatusWrite
    \/ \E r \in 1..MaxRequests, pid \in ProjectIds : ChatRoute(r, pid)
    \/ \E r \in 1..MaxRequests, pid \in ProjectIds : IframeSendMessage(r, pid)
    \/ \E r \in 1..MaxRequests, bodyOk \in BOOLEAN : ProjectChatMessage(r, bodyOk)
    \/ \E r \in 1..MaxRequests, err \in LLMErrors : LLMFailure(r, err)
    \/ \E r \in 1..MaxRequests, t \in TokenCosts : LLMSuccess(r, t)
    \/ \E r \in 1..MaxRequests : ChatInc(r)
    \/ \E r \in 1..MaxRequests : ChatSave(r)

SpecChat == InitChat /\ [][NextChat]_vars

(***************************************************************************)
(* Status operations: suspend, reactivate, admin status update             *)
(***************************************************************************)
\* what a finished status operation leaves in its slot
AdminDone(op, pid, before, result) ==
    [pc |-> "done", op |-> op, project_id |-> pid, at |-> now,
     before |-> before, result |-> result]

\* admin SuspendProject: updateProjectStatus(suspended), nothing logged
SuspendProject(a, pid) ==
    /\ admin[a].pc = "idle"
    /\ projects' = SetStatus(projects, pid, "suspended")
    /\ admin' = [admin EXCEPT ![a] =
          AdminDone("SuspendProject", pid, projects[pid], "ok")]
    /\ UNCHANGED <<now, pendingStatus, evals, requests, chat_messages,
                   charges, notifications, renewals, maintenance>>

\* SuspendSubscription: updateProjectStatus(suspended), then the suspension
\* log entry that carries the reason
SuspendSubscription(a, pid) ==
    /\ admin[a].pc = "idle"
    /\ projects' = SetStatus(projects, pid, "suspended")
    /\ notifications' = LogNotification(notifications, pid, "suspension", now, a)
    /\ admin' = [admin EXCEPT ![a] =
          AdminDone("SuspendSubscription", pid, projects[pid], "ok")]
    /\ UNCHANGED <<now, pendingStatus, evals, requests, chat_messages,
                   charges, renewals, maintenance>>

ReactivateProjectReadAtOrAfter(a, pid) ==
    /\ admin[a].pc = "idle"
    /\ admin' = [admin EXCEPT ![a] =
          IF now >= projects[pid].expiry_date
          THEN AdminDone("ReactivateProject", pid, projects[pid], "expired")
          ELSE [pc |-> "write", op |-> "ReactivateProject",
                project_id |-> pid, at |-> now, before |-> projects[pid]]]
    /\ UNCHANGED <<projects, now, pendingStatus, evals, requests,
                   chat_messages, charges, notifications, renewals,
                   maintenance>>

\* admin ReactivateProject up to its store write: the read of the project and
\* the expiry test
ReactivateProjectRead(a, pid) ==
    /\ admin[a].pc = "idle"
    /\ admin' = [admin EXCEPT ![a] =
          IF After(now, projects[pid].expiry_date)
          THEN AdminDone("ReactivateProject", pid, projects[pid], "expired")
          ELSE [pc |-> "write", op |-> "ReactivateProject",
                project_id |-> pid, at |-> now, before |-> projects[pid]]]
    /\ UNCHANGED <<projects, now, pendingStatus, evals, requests,
                   chat_messages, charges, notifications, renewals,
                   maintenance>>

\* admin ReactivateProject: updateProjectStatus(active)
ReactivateProjectWrite(a) ==
    /\ admin[a].pc = "write"
    /\ projects' = SetStatus(projects, admin[a].project_id, "active")
    /\ admin' = [admin EXCEPT ![a] =
          [pc |-> "done", op |-> admin[a].op,
           project_id |-> admin[a].project_id, at |-> admin[a].at,
           before |-> admin[a].before, result |-> "ok"]]
    /\ UNCHANGED <<now, pendingStatus, evals, requests, chat_messages,
                   charges, notifications, renewals, maintenance>>

\* Project.Reactivate on a Project value held in memory
Reactivate(p, t) ==
    IF IsExpired(p, t)
    THEN [result |-> "expired", value |-> p]
    ELSE [result |-> "ok", value |-> [p EXCEPT !.status = "active"]]

\* a caller loads the project and calls Reactivate on the value; the store is
\* not written
ReactivateCall(a, pid) ==
    /\ admin[a].pc = "idle"
    /\ admin' = [admin EXCEPT ![a] =
          [pc |-> "done", op |-> "Reactivate", project_id |-> pid,
           at |-> now, before |-> projects[pid],
           result |-> Reactivate(projects[pid], now).result,
           value |-> Reactivate(projects[pid], now).value]]
    /\ UNCHANGED <<projects, now, pendingStatus, evals, requests,
                   chat_messages, charges, notifications, renewals,
                   maintenance>>

isValidStatus(st) == st \in Statuses

\* admin UpdateProjectStatus: any valid status is stored as given
UpdateProjectStatus(a, pid, st) ==
    /\ admin[a].pc = "idle"
    /\ IF ~isValidStatus(st)
       THEN /\ admin' = [admin EXCEPT ![a] =
                  AdminDone("UpdateProjectStatus", pid, projects[pid],
                            "invalid")]
            /\ UNCHANGED <<projects, notifications>>
       ELSE /\ projects' = SetStatus(projects, pid, st)
            /\ notifications' = LogNotification(notifications, NilObjectID,
                                                "status_change", now, a)
            /\ admin' = [admin EXCEPT ![a] =
                  AdminDone("UpdateProjectStatus", pid, projects[pid], "ok")]
    /\ UNCHANGED <<now, pendingStatus, evals, requests, chat_messages,
                   charges, renewals, maintenance>>

(***************************************************************************)
(* The maintenance job                                                     *)
(***************************************************************************)
\* the filter of UpdateExpiredProjects: expiry_date < now and status # expired
SweepMatchesNotDeleted(p, t) ==
    p.expiry_date < t /\ p.status \notin {"expired", "deleted"}

SweepMatches(p, t) == p.expiry_date < t /\ p.status # "expired"

ModifiedCount(projs, t) ==
    Cardinality({pid \in DOMAIN projs : SweepMatches(projs[pid], t)})

\* a sweep that would mark only the records whose status is active
UpdateExpiredProjectsActiveOnly(projs, t) ==
    [pid \in DOMAIN projs |->
        IF projs[pid].expiry_date < t /\ projs[pid].status = "active"
        THEN [projs[pid] EXCEPT !.status = "expired"]
        ELSE projs[pid]]

\* UpdateMany: every matching record gets status expired
UpdateExpiredProjects(projs, t) ==
    [pid \in DOMAIN projs |->
        IF SweepMatches(projs[pid], t)
        THEN [projs[pid] EXCEPT !.status = "expired"]
        ELSE projs[pid]]

\* FixProjectLimits: a record whose status is the empty string (or that lacks
\* a subscription field) gets the defaults; every other record is not matched
DefaultTokenLimit == 100000

FixProjectLimits(projs, t) ==
    [pid \in DOMAIN projs |->
        IF projs[pid].status = ""
        THEN [projs[pid] EXCEPT !.status = "active",
                                !.expiry_date = AddDate(t, 1),
                                !.monthly_token_limit = DefaultTokenLimit]
        ELSE projs[pid]]

\* one tick of the maintenance timer: UpdateExpiredProjects, then
\* FixProjectLimits
RunSubscriptionMaintenance ==
    /\ projects' = FixProjectLimits(UpdateExpiredProjects(projects, now), now)
    /\ maintenance' =
          [runs |-> IF maintenance.runs < MaxSweeps
                    THEN maintenance.runs + 1 ELSE MaxSweeps,
           modified |-> ModifiedCount(projects, now)]
    /\ UNCHANGED <<now, pendingStatus, evals, requests, chat_messages,
                   charges, notifications, renewals, admin>>

(***************************************************************************)
(* Claims about the evaluators (SpecEval)                                  *)
(***************************************************************************)
EvalDone == evals.kind # "none"

\* C1: every project record with status = active, now < expiry_date and
\* total_tokens_used < monthly_token_limit is allowed by the evaluator
\* (getProjectWithValidation, and validateProjectSubscription followed by
\* TokenLimitValidator), and the evaluation issues no write to the store.
C1_ActiveUnexpiredUnderLimitAllowed ==
    EvalDone =>
        LET p == evals.snapshot IN
        (/\ p.status = "active"
         /\ evals.at < p.expiry_date
         /\ p.total_tokens_used < p.monthly_token_limit)
        => (evals.result = "allowed" /\ evals.issued = {})

Completes(k) == renewals[k].pc # "done" /\ renewals'[k].pc = "done"

\* C10: every renew operation (RenewSubscription, RenewProject,
\* Project.ExtendSubscription) applied to a project whose expiry_date is
\* already past sets the new expiry_date to now + months, never to the stale
\* expiry + months.
C10_RenewFromExpiredExtendsFromNow ==
    [][\A k \in 1..MaxRenewals :
          Completes(k) =>
             LET r == renewals'[k] IN
             IF r.kind = "ExtendSubscription"
             THEN r.before.expiry_date < r.at
                     => r.value.expiry_date = r.at + r.months * MonthTicks
             ELSE projects[r.project_id].expiry_date < r.at
                     => projects'[r.project_id].expiry_date
                           = r.at + r.months * MonthTicks]_vars

\* C10 witness: a RenewSubscription that read a past expiry has completed and
\* the stored expiry is its now + months.
C10_Witness ==
    \E k \in 1..MaxRenewals :
        /\ renewals[k].pc = "done"
        /\ renewals[k].kind = "RenewSubscription"
        /\ renewals[k].old_expiry < renewals[k].at
        /\ projects[renewals[k].project_id].expiry_date
              = renewals[k].at + renewals[k].months * MonthTicks

(***************************************************************************)
(* Claims about the chat route and its handler (SpecChat)                  *)
(***************************************************************************)
\* the request has reached the LLM call
LLMCalled(q) == q.pc = "llm" \/ q.llm # "none"

\* request r has a chat message stored
HasMessage(r) == \E m \in chat_messages : m.id = r

Started == {r \in 1..MaxRequests : requests[r].pc # "idle"}

\* C4: on the chat route the LLM is called for a request only after the
\* evaluator allowed that request's project, and a request the evaluator
\* blocks, for any reason, makes no LLM call, charges no tokens and stores no
\* chat message.
C4_BlockedRequestNeverReachesLLM ==
    \A r \in Started :
        LET q == requests[r] IN
        q.route = "chat" =>
            /\ LLMCalled(q) => q.verdict = "allowed"
            /\ q.verdict # "allowed" =>
                  ~LLMCalled(q) /\ q.charged = 0 /\ ~HasMessage(r)

\* C4 witness: a request on the chat route that the evaluator blocked is
\* finished, with no LLM call, no charge and no chat message.
C4_Witness ==
    \E r \in Started :
        /\ requests[r].route = "chat"
        /\ requests[r].pc = "done"
        /\ requests[r].verdict = "suspended"
        /\ requests[r].out.http = 403
        /\ ~LLMCalled(requests[r])
        /\ requests[r].charged = 0
        /\ ~HasMessage(r)

\* C6: a chat request increments the usage counter only after its own LLM
\* call returned successfully; when the LLM call fails the request charges
\* nothing, stores no chat message and answers with a generic message that
\* carries no provider error text.
C6_ChargeOnlyAfterLLMSuccess ==
    \A r \in Started :
        LET q == requests[r] IN
        /\ q.pc \in {"save"} \/ q.charged > 0 \/ HasMessage(r) => q.llm = "ok"
        /\ q.llm \in LLMErrors =>
              /\ q.pc = "done"
              /\ q.charged = 0
              /\ ~HasMessage(r)
              /\ q.out.http = 500
              /\ q.out.text \notin LLMErrors

\* C6 witness: a request whose LLM call failed is finished with the generic
\* 500 answer and no charge, and the stored usage is what the request read.
C6_Witness ==
    \E r \in Started :
        /\ requests[r].llm \in LLMErrors
        /\ requests[r].pc = "done"
        /\ requests[r].charged = 0
        /\ requests[r].out.text = "Failed to generate response"
        /\ \A o \in Started : requests[o].charged = 0
        /\ projects[requests[r].project_id].total_tokens_used =
              requests[r].snap.total_tokens_used

\* C7: on the chat route a request for an active, unexpired project under its
\* limit is admitted through the whole middleware chain to the LLM, its full
\* cost is charged without clamping, and a request that finds the usage at or
\* over the limit is blocked with limit_exceeded.
C7_UnderLimitAdmittedThenBlocked ==
    \A r \in Started :
        LET q == requests[r] IN
        (q.route = "chat" /\ q.pc = "done") =>
            /\ (/\ q.seen.status = "active"
                /\ q.seen.total_tokens_used < q.seen.monthly_token_limit
                /\ q.verdict = "allowed")
                  => (LLMCalled(q) /\ (q.llm = "ok" => q.charged = q.tokens))
            /\ (/\ q.seen.status = "active"
                /\ q.seen.total_tokens_used >= q.seen.monthly_token_limit
                /\ q.verdict \notin {"expired", "unavailable"})
                  => q.verdict = "limit_exceeded"

(***************************************************************************)
(* updateProjectTokenUsage: the charge with its notification goroutine     *)
(***************************************************************************)
\* thresholds and dedup windows written in updateProjectTokenUsage
LimitPercent == 100
WarningPercent == 80
LimitHours == 24
WarningHours == 12

\* usagePercent >= pct, with usagePercent = newTotalUsage / limit * 100
\* (the limit is positive, so the quotient is compared by cross-multiplying)
UsagePercentAtLeast(newTotalUsage, limit, pct) ==
    newTotalUsage * 100 >= pct * limit

ThresholdNotificationWarningFirst(newTotalUsage, limit) ==
    IF UsagePercentAtLeast(newTotalUsage, limit, WarningPercent)
    THEN "usage_warning"
    ELSE IF UsagePercentAtLeast(newTotalUsage, limit, LimitPercent)
         THEN "monthly_limit"
         ELSE "none"

\* the if / else-if of the goroutine: which notification is attempted
ThresholdNotification(newTotalUsage, limit) ==
    IF UsagePercentAtLeast(newTotalUsage, limit, LimitPercent)
    THEN "monthly_limit"
    ELSE IF UsagePercentAtLeast(newTotalUsage, limit, WarningPercent)
         THEN "usage_warning"
         ELSE "none"

DedupHours(type) == IF type = "monthly_limit" THEN LimitHours ELSE WarningHours

\* count of entries of the type for the project with sent_at >= now - hours
WasNotificationRecentlySent(log, pid, type, hours, t) ==
    \E n \in log :
        n.project_id = pid /\ n.type = type /\ n.sent_at >= t - hours

\* FindOne of the project, newTotalUsage computed from what was read
updateProjectTokenUsage(c, pid, tokensUsed) ==
    /\ charges[c].pc = "idle"
    /\ charges' = [charges EXCEPT ![c] =
           [pc |-> "inc", project_id |-> pid, tokens |-> tokensUsed,
            read_total |-> projects[pid].total_tokens_used,
            limit |-> projects[pid].monthly_token_limit,
            new_total |-> projects[pid].total_tokens_used + tokensUsed,
            attempt |-> "pending", result |-> "pending"]]
    /\ UNCHANGED <<projects, now, pendingStatus, evals, requests,
                   chat_messages, notifications, renewals, admin,
                   maintenance>>

\* UpdateOne with $inc, then the goroutine is started and nil is returned
ChargeInc(c) ==
    /\ charges[c].pc = "inc"
    /\ projects' = IncTokensUsed(projects, charges[c].project_id,
                                 charges[c].tokens)
    /\ charges' = [charges EXCEPT ![c].pc = "notify", ![c].result = "nil"]
    /\ UNCHANGED <<now, pendingStatus, evals, requests, chat_messages,
                   notifications, renewals, admin, maintenance>>

\* goroutine: threshold test and the dedup read
NotifyCheck(c) ==
    /\ charges[c].pc = "notify"
    /\ LET type == ThresholdNotification(charges[c].new_total,
                                         charges[c].limit)
           go == /\ type # "none"
                 /\ ~WasNotificationRecentlySent(notifications,
                        charges[c].project_id, type, DedupHours(type), now)
       IN charges' = [charges EXCEPT
              ![c].attempt = type,
              ![c].pc = IF go THEN "log" ELSE "done"]
    /\ UNCHANGED <<projects, now, pendingStatus, evals, requests,
                   chat_messages, notifications, renewals, admin,
                   maintenance>>

\* goroutine: the insert that follows a dedup read that found nothing
NotifyLog(c) ==
    /\ charges[c].pc = "log"
    /\ notifications' = LogNotification(notifications, charges[c].project_id,
                                        charges[c].attempt, now, c)
    /\ charges' = [charges EXCEPT ![c].pc = "done"]
    /\ UNCHANGED <<projects, now, pendingStatus, evals, requests,
                   chat_messages, renewals, admin, maintenance>>

InitCharge ==
    /\ \E used \in ChargeUsedChoices, lim \in LimitChoices :
          projects = [pid \in ProjectIds |->
                         Project("active", 800, used, lim, TRUE)]
    /\ Quiet

TickCharge == Tick(ChargeTimes)

NextCharge ==
    \/ TickCharge
    \/ \E c \in 1..MaxCharges, pid \in ProjectIds, t \in TokenCosts :
           updateProjectTokenUsage(c, pid, t)
    \/ \E c \in 1..MaxCharges : ChargeInc(c)
    \/ \E c \in 1..MaxCharges : NotifyCheck(c)
    \/ \E c \in 1..MaxCharges : NotifyLog(c)

SpecCharge == InitCharge /\ [][NextCharge]_vars

(***************************************************************************)
(* Claims about charging (SpecChat) and its notifications (SpecCharge)     *)
(***************************************************************************)
RECURSIVE SeqSum(_)
SeqSum(s) == IF s = <<>> THEN 0 ELSE Head(s) + SeqSum(Tail(s))

\* tokens of the handler requests that take their $inc in this step
RequestIncs(pid) ==
    [r \in 1..MaxRequests |->
        IF /\ requests[r].pc = "inc"
           /\ requests'[r].pc # "inc"
           /\ requests[r].project_id = pid
        THEN requests[r].tokens ELSE 0]

\* tokens of the updateProjectTokenUsage calls that take their $inc in this step
ChargeIncs(pid) ==
    [c \in 1..MaxCharges |->
        IF /\ charges[c].pc = "inc"
           /\ charges'[c].pc # "inc"
           /\ charges[c].project_id = pid
        THEN charges[c].tokens ELSE 0]

\* C5: every step changes total_tokens_used of a project by exactly the
\* tokens of the charge that takes its increment in that step, whatever other
\* charges read or wrote in between; so N charges of t tokens, in any
\* interleaving and with no reset or renewal, add exactly N*t.
C5_EveryChargeAddsItsTokensOnce ==
    [][\A pid \in ProjectIds :
          projects'[pid].total_tokens_used =
              projects[pid].total_tokens_used
                  + SeqSum(RequestIncs(pid)) + SeqSum(ChargeIncs(pid))]_vars

\* C5 witness: two requests that read the same total u and each cost t have
\* both charged, and the stored total is u + 2t.
C5_Witness ==
    \E r1, r2 \in Started :
        /\ r1 # r2
        /\ requests[r1].pc = "done" /\ requests[r2].pc = "done"
        /\ requests[r1].charged > 0
        /\ requests[r1].charged = requests[r2].charged
        /\ requests[r1].snap.total_tokens_used
              = requests[r2].snap.total_tokens_used
        /\ requests[r1].project_id = requests[r2].project_id
        /\ projects[requests[r1].project_id].total_tokens_used =
              requests[r1].snap.total_tokens_used + 2 * requests[r1].charged

Decided == {c \in 1..MaxCharges : charges[c].pc \in {"log", "done"}}

\* C8: a charge whose new_total is at or over 100% of the limit attempts a
\* monthly_limit notification and no other, one at or over 80% and under 100%
\* attempts a usage_warning and no other, and one under 80% attempts none;
\* whatever a charge logs is of the type it attempted.
C8_ThresholdSelectsOneNotification ==
    /\ \A c \in Decided :
          LET q == charges[c] IN
          /\ q.new_total * 100 >= 100 * q.limit => q.attempt = "monthly_limit"
          /\ (q.new_total * 100 >= 80 * q.limit
                /\ q.new_total * 100 < 100 * q.limit)
                => q.attempt = "usage_warning"
          /\ q.new_total * 100 < 80 * q.limit =>
                (q.attempt = "none" /\ q.pc = "done")
    /\ \A n \in notifications :
          /\ n.src \in Decided
          /\ n.type = charges[n.src].attempt
          /\ n.type \in {"monthly_limit", "usage_warning"}

\* C8 witness: one charge landed exactly on 100% and logged monthly_limit,
\* another landed exactly on 80% and attempted usage_warning.
C8_Witness ==
    \E c1, c2 \in Decided :
        /\ charges[c1].pc = "done" /\ charges[c2].pc = "done"
        /\ charges[c1].new_total = charges[c1].limit
        /\ charges[c1].attempt = "monthly_limit"
        /\ \E n \in notifications : n.src = c1 /\ n.type = "monthly_limit"
        /\ charges[c2].new_total * 100 = 80 * charges[c2].limit
        /\ charges[c2].attempt = "usage_warning"

\* C9: the notification log never holds two usage_warning entries of one
\* project within 12 hours of each other, nor two monthly_limit entries
\* within 24 hours of each other.
C9_OneNotificationPerWindow ==
    \A n1, n2 \in notifications :
        (/\ n1 # n2
         /\ n1.project_id = n2.project_id
         /\ n1.type = n2.type
         /\ n1.sent_at <= n2.sent_at)
            => n2.sent_at - n1.sent_at > DedupHours(n1.type)

(***************************************************************************)
(* Claims about renewals of a running subscription (SpecRenew, SpecFields) *)
(***************************************************************************)
\* renewal k is rejected in this step
Rejects(k) == renewals[k].pc # "rejected" /\ renewals'[k].pc = "rejected"

\* C11: every renew operation (RenewSubscription not asked to extend from
\* now, RenewProject, Project.ExtendSubscription) applied to a project with
\* status active and now < expiry_date sets the new expiry_date to the old
\* expiry_date + months.
C11_RenewFromActiveExtendsFromExpiry ==
    [][\A k \in 1..MaxRenewals :
          Completes(k) =>
             LET r == renewals'[k]
                 p == projects[r.project_id]
                 q == projects'[r.project_id]
             IN
             CASE r.kind = "ExtendSubscription" ->
                    (r.before.status = "active" /\ r.at < r.before.expiry_date)
                       => r.value.expiry_date
                             = r.before.expiry_date + r.months * MonthTicks
               [] r.kind = "RenewSubscription" ->
                    (~r.from_now /\ p.status = "active" /\ r.at < r.old_expiry)
                       => q.expiry_date = r.old_expiry + r.months * MonthTicks
               [] r.kind = "RenewProject" ->
                    (p.status = "active" /\ r.at < p.expiry_date)
                       => q.expiry_date
                             = p.expiry_date + r.months * MonthTicks]_vars

\* C12: a successful renew(months, reset_tokens, new_limit) leaves status
\* active and reminder_sent false whatever the prior status, sets
\* total_tokens_used to 0 when reset_tokens is set and else leaves it, sets
\* monthly_token_limit to a positive new_limit and else leaves it; months
\* outside 1..12 is rejected, only such months are, and a rejection leaves
\* the project and the notification log unchanged.
C12_RenewWritesItsFieldsOnly ==
    [][\A k \in 1..MaxRenewals :
          /\ Completes(k) =>
                LET r == renewals'[k]
                    p == projects[r.project_id]
                    q == projects'[r.project_id]
                IN
                /\ r.months \in 1..12
                /\ q.status = "active"
                /\ q.reminder_sent = FALSE
                /\ q.total_tokens_used =
                      IF r.reset THEN 0 ELSE p.total_tokens_used
                /\ q.monthly_token_limit =
                      IF r.new_limit > 0 THEN r.new_limit
                      ELSE p.monthly_token_limit
                /\ q.is_active = p.is_active
          /\ Rejects(k) =>
                /\ renewals'[k].months \notin 1..12
                /\ projects' = projects
                /\ notifications' = notifications]_vars

\* C12 witness: one renewal with reset and a new limit has completed, leaving
\* usage 0, the new limit and status active, and another was rejected.
C12_Witness ==
    \E k1, k2 \in 1..MaxRenewals :
        /\ renewals[k1].pc = "done"
        /\ renewals[k1].kind = "RenewSubscription"
        /\ renewals[k1].reset
        /\ renewals[k1].new_limit = 20
        /\ projects[renewals[k1].project_id].total_tokens_used = 0
        /\ projects[renewals[k1].project_id].monthly_token_limit = 20
        /\ projects[renewals[k1].project_id].status = "active"
        /\ renewals[k2].pc = "rejected"
        /\ renewals[k2].months = 13

(***************************************************************************)
(* Suspend and reactivate (SpecLife)                                       *)
(***************************************************************************)
InitLife ==
    /\ projects \in [ProjectIds ->
          {Project(st, 2, 5, 10, TRUE) : st \in Statuses}]
    /\ Quiet

TickLife == Tick(LifeTimes)

NextLife ==
    \/ TickLife
    \/ \E a \in 1..MaxAdmin, pid \in ProjectIds : SuspendProject(a, pid)
    \/ \E a \in 1..MaxAdmin, pid \in ProjectIds : SuspendSubscription(a, pid)
    \/ \E a \in 1..MaxAdmin, pid \in ProjectIds : ReactivateProjectRead(a, pid)
    \/ \E a \in 1..MaxAdmin : ReactivateProjectWrite(a)
    \/ \E a \in 1..MaxAdmin, pid \in ProjectIds : ReactivateCall(a, pid)

SpecLife == InitLife /\ [][NextLife]_vars

\* status operation a finishes in this step
Finishes(a) == admin[a].pc # "done" /\ admin'[a].pc = "done"

C14_SuspendChangesStatusOnly ==
    [][\A a \in 1..MaxAdmin :
          Finishes(a) =>
             LET r == admin'[a] IN
             /\ r.op \in {"SuspendProject", "SuspendSubscription"} =>
                   /\ projects' = [projects EXCEPT
                         ![r.project_id].status = "suspended"]
                   /\ notifications' \ notifications =
                         IF r.op = "SuspendProject" THEN {}
                         ELSE {[project_id |-> r.project_id,
                                type |-> "suspension",
                                sent_at |-> r.at, src |-> a]}
             /\ (/\ r.op = "ReactivateProject"
                 /\ r.before.status = "suspended"
                 /\ r.at < r.before.expiry_date) =>
                   /\ r.result = "ok"
                   /\ projects' = [projects EXCEPT
                         ![r.project_id].status = "active"]
                   /\ \A b \in 1..MaxAdmin :
                        (/\ admin[b].pc = "done"
                         /\ admin[b].op \in {"SuspendProject",
                                             "SuspendSubscription"}
                         /\ admin[b].project_id = r.project_id)
                        => projects'[r.project_id] =
                              [admin[b].before EXCEPT !.status = "active"]]_vars

\* C14 witness: a suspend of an active project, then a reactivate before the
\* expiry, have both finished and the project is as it was before the suspend.
C14_Witness ==
    \E a1, a2 \in 1..MaxAdmin :
        /\ admin[a1].pc = "done" /\ admin[a1].op = "SuspendSubscription"
        /\ admin[a1].before.status = "active"
        /\ admin[a2].pc = "done" /\ admin[a2].op = "ReactivateProject"
        /\ admin[a2].before.status = "suspended"
        /\ admin[a2].at < admin[a2].before.expiry_date
        /\ admin[a2].result = "ok"
        /\ projects[admin[a1].project_id] = admin[a1].before
        /\ \E n \in notifications : n.type = "suspension" /\ n.src = a1

(***************************************************************************)
(* Operations on a deleted project (SpecDeleted)                           *)
(***************************************************************************)
InitDeleted ==
    /\ projects = [pid \in ProjectIds |-> Project("active", 2, 5, 10, TRUE)]
    /\ Quiet

TickDeleted == Tick(DeletedTimes)

NextDeleted ==
    \/ TickDeleted
    \/ \E pid \in ProjectIds : DeleteProject(pid)
    \/ \E k \in 1..MaxRenewals, pid \in ProjectIds :
          RenewProject(k, pid, 1, FALSE)
    \/ \E a \in 1..MaxAdmin, pid \in ProjectIds : SuspendProject(a, pid)
    \/ \E a \in 1..MaxAdmin, pid \in ProjectIds, st \in StatusInputs :
          UpdateProjectStatus(a, pid, st)
    \/ \E pid \in ProjectIds : EvalRoute(pid)
    \/ ApplyStatusWrite
    \/ RunSubscriptionMaintenance

SpecDeleted == InitDeleted /\ [][NextDeleted]_vars

\* C15: once the stored status of a project is deleted, no step (renew,
\* reactivate, suspend, admin status update, lazy expiry, maintenance sweep)
\* changes it, and no step changes any other field of the deleted project.
C15_DeletedIsTerminal ==
    [][\A pid \in ProjectIds :
          projects[pid].status = "deleted"
             => projects'[pid] = projects[pid]]_vars

(***************************************************************************)
(* The maintenance sweep over several projects (SpecSweep)                 *)
(***************************************************************************)
SweepIds == {"p1", "p2"}
SweepExpiry == {2, 4}
SweepTimes == {0, 2, 3, 5}
SweepStatusInputs == {"active", "suspended"}

InitSweep ==
    /\ projects \in [SweepIds ->
          {Project(st, e, 5, 10, st # "deleted") :
              st \in Statuses, e \in SweepExpiry}]
    /\ Quiet

TickSweep == Tick(SweepTimes)

NextSweep ==
    \/ TickSweep
    \/ RunSubscriptionMaintenance
    \/ \E a \in 1..MaxAdmin, pid \in ProjectIds, st \in SweepStatusInputs :
          UpdateProjectStatus(a, pid, st)

SpecSweep == InitSweep /\ [][NextSweep]_vars

\* C16: after a maintenance sweep run at time now no project has
\* expiry_date < now with a status other than expired; the sweep sets the
\* status of every record that matched to expired and changes nothing else
\* of it, leaves every record that did not match as it was, and reports as
\* modified exactly the records it changed; a sweep run on a state where an
\* earlier sweep left no matching record modifies zero records.
C16_SweepMarksExpiredAndIsIdempotent ==
    [][RunSubscriptionMaintenance =>
         /\ \A pid \in DOMAIN projects' :
              ~(/\ projects'[pid].expiry_date < now'
                /\ projects'[pid].status # "expired")
         /\ \A pid \in DOMAIN projects :
              IF /\ projects[pid].expiry_date < now
                 /\ projects[pid].status # "expired"
              THEN projects'[pid] =
                      [projects[pid] EXCEPT !.status = "expired"]
              ELSE projects'[pid] = projects[pid]
         /\ maintenance'.modified =
               Cardinality({pid \in DOMAIN projects :
                               projects'[pid] # projects[pid]})
         /\ (\A pid \in DOMAIN projects :
                ~(/\ projects[pid].expiry_date < now
                  /\ projects[pid].status # "expired"))
              => /\ maintenance'.modified = 0
                 /\ projects' = projects]_vars

\* C16 witness: two sweeps have run, the last one modified no record, and
\* the store holds a project past its expiry that a sweep marked expired next
\* to a project that is not past its expiry and kept its status.
C16_Witness ==
    /\ maintenance.runs = 2
    /\ maintenance.modified = 0
    /\ \E p, q \in SweepIds :
          /\ projects[p].expiry_date < now /\ projects[p].status = "expired"
          /\ projects[q].expiry_date >= now /\ projects[q].status = "suspended"

(***************************************************************************)
(* The maintenance timer keeps ticking (SpecSweepFair)                     *)
(***************************************************************************)
\* main starts one goroutine that runs RunSubscriptionMaintenance on every
\* tick of a 24 hour ticker for as long as the process lives: a sweep that
\* stays due is eventually run
NextSweepFair ==
    \/ TickSweep
    \/ RunSubscriptionMaintenance
    \/ \E pid \in ProjectIds, st \in SweepStatusInputs :
          UpdateProjectStatus(1, pid, st)

SpecSweepFair ==
    InitSweep /\ [][NextSweepFair]_vars /\ WF_vars(RunSubscriptionMaintenance)

\* C17: while the maintenance timer keeps ticking and the store is reachable,
\* every project whose expiry_date has passed eventually has the stored
\* status expired, whether or not it receives a chat request; a stored status
\* active on a project past its expiry does not persist forever.
C17_PastExpiryEventuallyExpired ==
    /\ \A pid \in SweepIds :
          (projects[pid].expiry_date < now) ~> (projects[pid].status = "expired")
    /\ \A pid \in SweepIds :
          ~<>[](/\ projects[pid].expiry_date < now
                /\ projects[pid].status = "active")

\* C17 witness: no request has happened, an admin update set a project that
\* was past its expiry back to active, both projects are past their expiry,
\* and the last sweep marked both of them expired.
C17_Witness ==
    /\ requests = NoRequests /\ evals = NoEval
    /\ admin[1].pc = "done" /\ admin[1].at > admin[1].before.expiry_date
    /\ maintenance.runs >= 1
    /\ maintenance.modified = 2
    /\ \A pid \in SweepIds :
          /\ projects[pid].expiry_date < now
          /\ projects[pid].status = "expired"

(***************************************************************************)
(* What a charge takes for the new total (SpecCharge, SpecChat)            *)
(***************************************************************************)
\* C18: the new_total a call of updateProjectTokenUsage uses for its
\* threshold decision, and the total ProjectChatMessage reports, equal the
\* stored total_tokens_used right after that call's own increment, also when
\* other charges land between the call's read and its increment.
C18_NewTotalIsStoredTotalAfterOwnInc ==
    [][/\ \A c \in 1..MaxCharges :
            (charges[c].pc = "inc" /\ charges'[c].pc = "notify")
            => charges[c].new_total =
                  projects'[charges[c].project_id].total_tokens_used
       /\ \A r \in 1..MaxRequests :
            (requests[r].pc = "inc" /\ requests'[r].pc = "save")
            => requests[r].snap.total_tokens_used + requests[r].tokens =
                  projects'[requests[r].project_id].total_tokens_used]_vars

(***************************************************************************)
(* Notifications of the chat handler's charges (SpecChatFair)              *)
(***************************************************************************)
\* a request that has started is carried to its response: gin runs the
\* middlewares and the handler of a request to the end
SpecChatFair == InitChat /\ [][NextChat]_vars /\ WF_vars(NextChat)

\* C19: a charge of ProjectChatMessage that brings the stored
\* total_tokens_used to or above monthly_token_limit leads to a monthly_limit
\* notification being logged for the project.
C19_ChargeAtLimitLogsMonthlyLimit ==
    \A r \in 1..MaxRequests, pid \in ProjectIds :
        (/\ requests[r].pc = "save"
         /\ requests[r].project_id = pid
         /\ projects[pid].total_tokens_used >= projects[pid].monthly_token_limit)
        ~> (\E n \in notifications :
               n.project_id = pid /\ n.type = "monthly_limit")

(***************************************************************************)
(* Concurrent requests on the chat route (SpecChat)                        *)
(***************************************************************************)
\* the costs charged so far by the requests of the chat route
ChatRouteCharged(reqs) ==
    SeqSum([r \in 1..MaxRequests |->
               IF reqs[r].pc # "idle" /\ reqs[r].route = "chat"
               THEN reqs[r].charged ELSE 0])

UpdateProject(a, pid, limit, st) ==
    /\ admin[a].pc = "idle"
    /\ projects' = [projects EXCEPT
          ![pid].monthly_token_limit = IF limit > 0 THEN limit ELSE @,
          ![pid].status = IF st # "" /\ isValidStatus(st) THEN st ELSE @]
    /\ admin' = [admin EXCEPT ![a] =
          AdminDone("UpdateProject", pid, projects[pid], "ok")]
    /\ UNCHANGED <<now, pendingStatus, evals, requests, chat_messages,
                   charges, notifications, renewals, maintenance>>

ActiveTimes == {0, 2, 3}
ActiveStatusInputs == {"", "active"}
ActiveLimitInputs == {0}

TickActive == Tick(ActiveTimes)

NextActive ==
    \/ TickActive
    \/ \E a \in 1..MaxAdmin, pid \in ProjectIds : ReactivateProjectRead(a, pid)
    \/ \E a \in 1..MaxAdmin : ReactivateProjectWrite(a)
    \/ \E a \in 1..MaxAdmin, pid \in ProjectIds :
          UpdateProjectStatus(a, pid, "active")
    \/ \E a \in 1..MaxAdmin, pid \in ProjectIds, limit \in ActiveLimitInputs,
          st \in ActiveStatusInputs : UpdateProject(a, pid, limit, st)
    \/ \E k \in 1..MaxRenewals, pid \in ProjectIds :
          RenewProject(k, pid, 1, FALSE)

SpecActive == InitLife /\ [][NextActive]_vars

\* C21: no step stores status active on a project whose expiry_date is not in
\* the future at the time of the write: a step that turns the stored status
\* into active leaves now < expiry_date.
C21_ActiveStoredOnlyBeforeExpiry ==
    [][\A pid \in ProjectIds :
          (/\ projects[pid].status # "active"
           /\ projects'[pid].status = "active")
          => now' < projects'[pid].expiry_date]_vars

(***************************************************************************)
(* Writers of monthly_token_limit (SpecLimit)                              *)
(***************************************************************************)
\* strconv.ParseInt(limitStr, 10, 64) on the form values the model sends
ParseInt(str) ==
    CASE str = "0"   -> [ok |-> TRUE, value |-> 0]
      [] str = "-5"  -> [ok |-> TRUE, value |-> 0 - 5]
      [] str = "20"  -> [ok |-> TRUE, value |-> 20]
      [] OTHER       -> [ok |-> FALSE, value |-> 0]

\* CreateProject: the limit is the default unless the form value parses, and
\* the parsed value is stored as it is; one year of subscription, status
\* active, no usage
CreateProject(newId, limitStr) ==
    /\ newId \notin DOMAIN projects
    /\ LET parsed == ParseInt(limitStr)
           monthlyTokenLimit ==
              IF limitStr # "" /\ parsed.ok THEN parsed.value
              ELSE DefaultTokenLimit
       IN projects' =
             [pid \in DOMAIN projects \cup {newId} |->
                 IF pid = newId
                 THEN Project("active", AddDate(now, 12), 0,
                              monthlyTokenLimit, TRUE)
                 ELSE projects[pid]]
    /\ UNCHANGED <<now, pendingStatus, evals, requests, chat_messages,
                   charges, notifications, renewals, admin, maintenance>>

\* UpdateTokenLimit: new_limit is required (a zero fails the binding) and must
\* be positive; then it is stored and limit_update is logged
UpdateTokenLimit(a, pid, newLimit) ==
    /\ admin[a].pc = "idle"
    /\ IF newLimit = 0 \/ newLimit <= 0
       THEN /\ admin' = [admin EXCEPT ![a] =
                  AdminDone("UpdateTokenLimit", pid, projects[pid], "invalid")]
            /\ UNCHANGED <<projects, notifications>>
       ELSE /\ projects' = [projects EXCEPT
                  ![pid].monthly_token_limit = newLimit]
            /\ notifications' = LogNotification(notifications, pid,
                                                "limit_update", now, a)
            /\ admin' = [admin EXCEPT ![a] =
                  AdminDone("UpdateTokenLimit", pid, projects[pid], "ok")]
    /\ UNCHANGED <<now, pendingStatus, evals, requests, chat_messages,
                   charges, renewals, maintenance>>

LimitIds == {"p1", "p2"}
FormLimits == {"", "0", "-5", "20", "abc"}
LimitInputs == {0 - 5, 0, 20}
InitLimit ==
    /\ projects = [pid \in ProjectIds |-> Project("active", 2, 5, 10, TRUE)]
    /\ Quiet

NextLimit ==
    \/ \E newId \in LimitIds, limitStr \in FormLimits :
          CreateProject(newId, limitStr)
    \/ \E a \in 1..MaxAdmin, pid \in DOMAIN projects, l \in LimitInputs :
          UpdateTokenLimit(a, pid, l)
    \/ \E a \in 1..MaxAdmin, pid \in DOMAIN projects, l \in LimitInputs :
          UpdateProject(a, pid, l, "")
    \/ \E k \in 1..MaxRenewals, pid \in DOMAIN projects, l \in LimitInputs :
          RenewSubscriptionRead(k, pid, 1, FALSE, l, FALSE)
    \/ \E k \in 1..MaxRenewals : RenewSubscriptionWrite(k)

SpecLimit == InitLimit /\ [][NextLimit]_vars

\* C22: every stored project has monthly_token_limit > 0 in every reachable
\* state: creation and every operation that can change the limit reject or
\* ignore a limit <= 0.
C22_LimitAlwaysPositive ==
    \A pid \in DOMAIN projects : projects[pid].monthly_token_limit > 0

(***************************************************************************)
(* Writers of total_tokens_used (SpecUsage)                                *)
(***************************************************************************)
\* a reset that would leave one token of usage
SetUsageZeroKeepOne(projs, pid) ==
    [projs EXCEPT ![pid].total_tokens_used = 1]

\* the $set of ResetTokenUsage
SetUsageZero(projs, pid) ==
    [projs EXCEPT ![pid].total_tokens_used = 0]

\* ResetTokenUsage: UpdateOne by the project_id it is given; no match is
\* answered 404, a match gets total_tokens_used = 0 and usage_reset is logged
ResetTokenUsage(a, projectID) ==
    /\ admin[a].pc = "idle"
    /\ IF projectID \notin DOMAIN projects
       THEN /\ admin' = [admin EXCEPT ![a] =
                  [pc |-> "done", op |-> "ResetTokenUsage",
                   project_id |-> projectID, at |-> now,
                   result |-> "not_found"]]
            /\ UNCHANGED <<projects, notifications>>
       ELSE /\ projects' = SetUsageZero(projects, projectID)
            /\ notifications' = LogNotification(notifications, projectID,
                                                "usage_reset", now, a)
            /\ admin' = [admin EXCEPT ![a] =
                  AdminDone("ResetTokenUsage", projectID, projects[projectID],
                            "ok")]
    /\ UNCHANGED <<now, pendingStatus, evals, requests, chat_messages,
                   charges, renewals, maintenance>>

\* the project id a handler finds in its route parameter: the empty string
\* when the route names the parameter differently
ParamIds == ProjectIds \cup {""}

InitUsage ==
    /\ projects = [pid \in ProjectIds |-> Project("active", 2, 5, 10, TRUE)]
    /\ Quiet

NextUsage ==
    \/ \E r \in 1..MaxRequests, pid \in ProjectIds : IframeSendMessage(r, pid)
    \/ \E r \in 1..MaxRequests : ProjectChatMessage(r, TRUE)
    \/ \E r \in 1..MaxRequests, t \in TokenCosts : LLMSuccess(r, t)
    \/ \E r \in 1..MaxRequests : ChatInc(r)
    \/ \E r \in 1..MaxRequests : ChatSave(r)
    \/ \E pid \in ProjectIds : RenewProject(1, pid, 1, TRUE)
    \/ \E pid \in ProjectIds : RenewProject(2, pid, 1, FALSE)
    \/ \E projectID \in ParamIds : ResetTokenUsage(1, projectID)

SpecUsage == InitUsage /\ [][NextUsage]_vars

\* renewal k with reset finishes on project pid in this step
RenewsWithReset(k, pid) ==
    /\ Completes(k)
    /\ renewals'[k].project_id = pid
    /\ renewals'[k].reset

\* ResetTokenUsage a finishes on project pid in this step
ResetsUsage(a, pid) ==
    /\ Finishes(a)
    /\ admin'[a].op = "ResetTokenUsage"
    /\ admin'[a].project_id = pid
    /\ admin'[a].result = "ok"

NotifyCheckFails(c) ==
    /\ charges[c].pc = "notify"
    /\ ThresholdNotification(charges[c].new_total, charges[c].limit) # "none"
    /\ charges' = [charges EXCEPT
          ![c].attempt = ThresholdNotification(charges[c].new_total,
                                               charges[c].limit),
          ![c].pc = "read_failed"]
    /\ UNCHANGED <<projects, now, pendingStatus, evals, requests,
                   chat_messages, notifications, renewals, admin,
                   maintenance>>

\* a failed insert that would take the increment back and fail the charge
NotifyLogFailsRollback(c) ==
    /\ charges[c].pc = "log"
    /\ projects' = IncTokensUsed(projects, charges[c].project_id,
                                 0 - charges[c].tokens)
    /\ charges' = [charges EXCEPT ![c].pc = "insert_failed",
                                  ![c].result = "error"]
    /\ UNCHANGED <<now, pendingStatus, evals, requests, chat_messages,
                   notifications, renewals, admin, maintenance>>

\* goroutine: LogNotification returns an error, which the caller drops
NotifyLogFails(c) ==
    /\ charges[c].pc = "log"
    /\ charges' = [charges EXCEPT ![c].pc = "insert_failed"]
    /\ UNCHANGED <<projects, now, pendingStatus, evals, requests,
                   chat_messages, notifications, renewals, admin,
                   maintenance>>

FailTimes == {0, 25}

TickChargeFail == Tick(FailTimes)

NextChargeFail ==
    \/ TickChargeFail
    \/ \E c \in 1..MaxCharges, pid \in ProjectIds, t \in TokenCosts :
           updateProjectTokenUsage(c, pid, t)
    \/ \E c \in 1..MaxCharges : ChargeInc(c)
    \/ \E c \in 1..MaxCharges : NotifyCheck(c)
    \/ \E c \in 1..MaxCharges : NotifyCheckFails(c)
    \/ \E c \in 1..MaxCharges : NotifyLog(c)
    \/ \E c \in 1..MaxCharges : NotifyLogFails(c)

SpecChargeFail == InitCharge /\ [][NextChargeFail]_vars

\* the notification attempt of charge c fails in this step
AttemptFails(c) ==
    /\ charges[c].pc \in {"notify", "log"}
    /\ charges'[c].pc \in {"read_failed", "insert_failed"}

\* C24: a failure of the dedup read or of the notification insert leaves the
\* charge as it was: the stored usage keeps the increment, the charge has
\* returned nil, nothing is logged, and no request sees the failure.
C24_NotificationFailureLeavesCharge ==
    [][\A c \in 1..MaxCharges :
          AttemptFails(c) =>
             /\ projects' = projects
             /\ projects[charges[c].project_id].total_tokens_used
                   >= charges[c].read_total + charges[c].tokens
             /\ charges[c].result = "nil"
             /\ charges'[c].result = "nil"
             /\ notifications' = notifications
             /\ requests' = requests]_vars

\* C24 witness: one charge ended on a failed dedup read and another on a
\* failed insert; both returned nil and the stored usage holds both
\* increments.
C24_Witness ==
    \E c1, c2 \in 1..MaxCharges :
        /\ charges[c1].pc = "read_failed" /\ charges[c1].result = "nil"
        /\ charges[c2].pc = "insert_failed" /\ charges[c2].result = "nil"
        /\ charges[c1].project_id = charges[c2].project_id
        /\ \E used \in ChargeUsedChoices :
              projects[charges[c1].project_id].total_tokens_used =
                 used + charges[c1].tokens + charges[c2].tokens
        /\ notifications = {}

(***************************************************************************)
(* Store failures on the chat path (SpecChatFail)                          *)
(***************************************************************************)
\* SubscriptionValidator when the FindOne of validateProjectSubscription
\* fails: the error "Project not found or invalid" is answered like every
\* other validation error and the chain is aborted
ChatRouteStoreFails(r, pid) ==
    /\ requests[r].pc = "idle"
    /\ requests' = [requests EXCEPT ![r] =
          Request("done", "chat", pid, NoProject, "not_found", NoProject,
                  "none", 0, 0,
                  Outcome(403, "subscription_blocked", "not_found"))]
    /\ UNCHANGED <<projects, now, pendingStatus, evals, chat_messages,
                   charges, notifications, renewals, admin, maintenance>>

\* ProjectChatMessage when its own FindOne fails: 404 before the LLM call
ProjectChatMessageStoreFails(r) ==
    /\ requests[r].pc = "ProjectChatMessage"
    /\ requests' = [requests EXCEPT ![r] =
          [@ EXCEPT !.pc = "done",
                    !.out = Outcome(404, "error", "Project not found")]]
    /\ UNCHANGED <<projects, now, pendingStatus, evals, chat_messages,
                   charges, notifications, renewals, admin, maintenance>>

NextChatFail ==
    \/ TickChat
    \/ ApplyStatusWrite
    \/ \E r \in 1..MaxRequests, pid \in ProjectIds : ChatRoute(r, pid)
    \/ \E r \in 1..MaxRequests, pid \in ProjectIds : ChatRouteStoreFails(r, pid)
    \/ \E r \in 1..MaxRequests, pid \in ProjectIds : IframeSendMessage(r, pid)
    \/ \E r \in 1..MaxRequests : ProjectChatMessage(r, TRUE)
    \/ \E r \in 1..MaxRequests : ProjectChatMessageStoreFails(r)
    \/ \E r \in 1..MaxRequests, t \in TokenCosts : LLMSuccess(r, t)
    \/ \E r \in 1..MaxRequests : ChatInc(r)
    \/ \E r \in 1..MaxRequests : ChatSave(r)

SpecChatFail == InitChat /\ [][NextChatFail]_vars

\* C25: a chat request whose evaluator read of the project fails is aborted
\* before any LLM call, with nothing charged and no chat message stored, and
\* its outcome is a retryable store error, not the outcome of a blocked
\* subscription.
C25_StoreFailureIsRetryableError ==
    \A r \in Started :
        LET q == requests[r] IN
        (q.route = "chat" /\ q.verdict = "not_found") =>
            /\ q.pc = "done"
            /\ ~LLMCalled(q)
            /\ q.charged = 0
            /\ ~HasMessage(r)
            /\ q.out.status # "subscription_blocked"
            /\ q.out.http >= 500

(***************************************************************************)
(* The maintenance loop of main and its failures (SpecLoop)                *)
(***************************************************************************)
\* the loop before the first tick: nothing pending, nothing run or logged
NoLoop ==
    [runs |-> 0, modified |-> 0, ticks |-> 0, pending |-> FALSE,
     logged |-> 0, last |-> "none"]

\* instants at which the 24 hour ticker fires
LoopTimes == {24, 48, 72}
\* how a cycle ends: both steps succeed, UpdateExpiredProjects returns an
\* error, or FixProjectLimits returns an error
CycleOutcomes == {"ok", "expiry_failed", "fix_failed"}

\* the ticker delivers a tick into its channel of capacity one
TickerFires ==
    /\ \E t \in LoopTimes : t > now /\ now' = t
    /\ maintenance' = [maintenance EXCEPT !.ticks = @ + 1, !.pending = TRUE]
    /\ UNCHANGED <<projects, pendingStatus, evals, requests, chat_messages,
                   charges, notifications, renewals, admin>>

\* what a failing UpdateMany may leave behind: any part of the matching
\* records already marked
PartialSweeps(projs, t) ==
    {[pid \in DOMAIN projs |->
         IF pid \in S THEN [projs[pid] EXCEPT !.status = "expired"]
         ELSE projs[pid]] :
       S \in SUBSET {pid \in DOMAIN projs : SweepMatches(projs[pid], t)}}

\* a loop that would keep the tick after a failed cycle and so run the cycle
\* again at once
MaintenanceLoopRetry(outcome) ==
    /\ maintenance.pending
    /\ projects' \in
          IF outcome = "expiry_failed" THEN PartialSweeps(projects, now)
          ELSE {UpdateExpiredProjects(projects, now)}
    /\ maintenance' = [maintenance EXCEPT
          !.pending = (outcome # "ok"),
          !.runs = @ + 1,
          !.modified = ModifiedCount(projects, now),
          !.logged = IF outcome = "ok" THEN @ ELSE @ + 1,
          !.last = outcome]
    /\ maintenance.runs < Cardinality(LoopTimes) + 1
    /\ UNCHANGED <<now, pendingStatus, evals, requests, chat_messages,
                   charges, notifications, renewals, admin>>

\* one iteration of the loop in main: the tick is received,
\* RunSubscriptionMaintenance runs, and an error it returns is logged
MaintenanceLoop(outcome) ==
    /\ maintenance.pending
    /\ projects' \in
          CASE outcome = "expiry_failed" -> PartialSweeps(projects, now)
            [] outcome = "fix_failed" ->
                  {UpdateExpiredProjects(projects, now)}
            [] OTHER ->
                  {FixProjectLimits(UpdateExpiredProjects(projects, now), now)}
    /\ maintenance' = [maintenance EXCEPT
          !.pending = FALSE,
          !.runs = @ + 1,
          !.modified = ModifiedCount(projects, now),
          !.logged = IF outcome = "ok" THEN @ ELSE @ + 1,
          !.last = outcome]
    /\ UNCHANGED <<now, pendingStatus, evals, requests, chat_messages,
                   charges, notifications, renewals, admin>>

InitLoop ==
    /\ projects \in [SweepIds ->
          {Project(st, e, 5, 10, st # "deleted") :
              st \in Statuses, e \in {30, 60}}]
    /\ now = 0
    /\ pendingStatus = {}
    /\ evals = NoEval
    /\ requests = NoRequests
    /\ chat_messages = {}
    /\ charges = NoCharges
    /\ notifications = {}
    /\ renewals = NoRenewals
    /\ admin = NoAdmin
    /\ maintenance = NoLoop

NextLoop ==
    \/ TickerFires
    \/ \E outcome \in CycleOutcomes : MaintenanceLoop(outcome)

\* the goroutine is scheduled: a tick waiting in the channel is received
SpecLoop ==
    InitLoop /\ [][NextLoop]_vars
       /\ WF_vars(\E outcome \in CycleOutcomes : MaintenanceLoop(outcome))

\* C26: a maintenance cycle that fails is logged once and consumes its tick:
\* the loop makes no run without a tick, so nothing is retried at once, and
\* every later tick, after a failed cycle too, leads to the next run.
C26_FailedCycleLoggedAndRetriedOnNextTick ==
    /\ [][maintenance'.runs # maintenance.runs =>
             /\ maintenance.pending /\ ~maintenance'.pending
             /\ maintenance'.runs = maintenance.runs + 1
             /\ maintenance'.runs <= maintenance'.ticks
             /\ maintenance'.logged =
                   IF maintenance'.last = "ok" THEN maintenance.logged
                   ELSE maintenance.logged + 1]_vars
    /\ \A n \in 0..Cardinality(LoopTimes) :
          (maintenance.pending /\ maintenance.runs = n
              /\ maintenance.last \in {"expiry_failed", "fix_failed"})
          ~> (maintenance.runs = n + 1 /\ ~maintenance.pending)

\* C26 witness: a cycle failed and was logged, a later tick ran the sweep
\* again, that cycle succeeded, and the projects past their expiry are
\* expired.
C26_Witness ==
    /\ maintenance.runs = 2
    /\ maintenance.ticks = 2
    /\ maintenance.logged = 1
    /\ maintenance.last = "ok"
    /\ \E pid \in SweepIds :
          projects[pid].expiry_date < now /\ projects[pid].status = "expired"
    /\ \A pid \in SweepIds :
          projects[pid].expiry_date < now => projects[pid].status = "expired"

(***************************************************************************)
(* Chat message records and their rating (SpecRate)                        *)
(***************************************************************************)
\* a rating update that would also take the charge off the record
SetRatingClearTokens(m, rating, feedback, t) ==
    [m EXCEPT !.rating = rating, !.feedback = feedback, !.rated_at = t,
              !.tokens_used = 0]

\* the $set of RateMessage
SetRating(m, rating, feedback, t) ==
    [m EXCEPT !.rating = rating, !.feedback = feedback, !.rated_at = t]

\* RateMessage: the rating must be positive or negative; the message is
\* looked up by its id and the project id of the route together
RateMessage(a, projectID, messageID, rating, feedback) ==
    /\ admin[a].pc = "idle"
    /\ LET matched == {m \in chat_messages :
                          m.id = messageID /\ m.project_id = projectID}
           result == IF rating # "positive" /\ rating # "negative"
                     THEN "invalid"
                     ELSE IF matched = {} THEN "not_found" ELSE "ok"
       IN
       /\ chat_messages' =
             IF result = "ok"
             THEN {IF m \in matched THEN SetRating(m, rating, feedback, now)
                   ELSE m : m \in chat_messages}
             ELSE chat_messages
       /\ admin' = [admin EXCEPT ![a] =
             [pc |-> "done", op |-> "RateMessage", project_id |-> projectID,
              message_id |-> messageID, rating |-> rating, at |-> now,
              before |-> chat_messages, result |-> result]]
    /\ UNCHANGED <<projects, now, pendingStatus, evals, requests, charges,
                   notifications, renewals, maintenance>>

RateProjectInputs == {"p1", "px"}
RatingInputs == {"positive", "negative", "neutral"}
InitRate ==
    /\ projects = [pid \in ProjectIds |-> Project("active", 800, 5, 10, TRUE)]
    /\ Quiet

NextRate ==
    \/ \E r \in 1..MaxRequests, pid \in ProjectIds : IframeSendMessage(r, pid)
    \/ \E r \in 1..MaxRequests : ProjectChatMessage(r, TRUE)
    \/ \E r \in 1..MaxRequests : LLMSuccess(r, 1)
    \/ \E r \in 1..MaxRequests : ChatInc(r)
    \/ \E r \in 1..MaxRequests : ChatSave(r)
    \/ \E a \in {1, 2}, projectID \in RateProjectInputs,
          messageID \in 1..MaxRequests, rating \in RatingInputs :
          RateMessage(a, projectID, messageID, rating, "feedback")

SpecRate == InitRate /\ [][NextRate]_vars

\* C27: a stored chat message is never removed and no step changes its
\* project, session, message, response or tokens_used; a step that changes a
\* message is a RateMessage that names the message's project with rating
\* positive or negative and changes rating, feedback and rated_at only; a
\* RateMessage with another rating, or naming another project, leaves every
\* record as it was.
C27_MessageImmutableExceptRating ==
    [][/\ \A m \in chat_messages :
            \E n \in chat_messages' :
               /\ n.id = m.id
               /\ n.project_id = m.project_id
               /\ n.session_id = m.session_id
               /\ n.message = m.message
               /\ n.response = m.response
               /\ n.tokens_used = m.tokens_used
               /\ n # m =>
                     \E a \in 1..MaxAdmin :
                        /\ Finishes(a)
                        /\ admin'[a].op = "RateMessage"
                        /\ admin'[a].result = "ok"
                        /\ admin'[a].message_id = m.id
                        /\ admin'[a].project_id = m.project_id
                        /\ admin'[a].rating \in {"positive", "negative"}
                        /\ n = [m EXCEPT !.rating = admin'[a].rating,
                                         !.feedback = n.feedback,
                                         !.rated_at = now]
       /\ \A a \in 1..MaxAdmin :
            (/\ Finishes(a)
             /\ admin'[a].op = "RateMessage"
             /\ \/ admin'[a].rating \notin {"positive", "negative"}
                \/ ~\E m \in chat_messages :
                       /\ m.id = admin'[a].message_id
                       /\ m.project_id = admin'[a].project_id)
            => (chat_messages' = chat_messages /\ admin'[a].result # "ok")]_vars

\* C27 witness: one message was rated through its own project, a rating
\* naming another project and a rating of neutral were both refused, and the
\* rated record differs from the stored one in its rating fields only.
C27_Witness ==
    /\ \E a \in 1..MaxAdmin :
          /\ admin[a].pc = "done" /\ admin[a].op = "RateMessage"
          /\ admin[a].result = "ok"
          /\ \E m \in chat_messages :
                /\ m.id = admin[a].message_id
                /\ m.rating = admin[a].rating
                /\ m.rated_at = admin[a].at
                /\ m.tokens_used = 1
    /\ \E b \in 1..MaxAdmin :
          /\ admin[b].pc = "done" /\ admin[b].op = "RateMessage"
          /\ admin[b].result # "ok"
          /\ admin[b].before # {}
          /\ \/ admin[b].rating = "neutral"
             \/ admin[b].project_id = "px"

(***************************************************************************)
(* RateLimitValidator on the chat route (SpecChat)                         *)
(***************************************************************************)
\* C28: a chat request for an active project that reaches RateLimitValidator
\* is answered 429 rate_limited exactly when checkRateLimit reports the
\* caller over its limit of 60 per minute; within the limit it is passed on
\* to the next handler.
C28_RateLimiterPassesWithinLimit ==
    \A r \in Started :
        LET q == requests[r] IN
        (/\ q.route = "chat"
         /\ q.verdict = "allowed"
         /\ q.seen.status = "active") =>
            /\ checkRateLimit(q.seen, 60) => q.out.status # "rate_limited"
            /\ ~checkRateLimit(q.seen, 60) =>
                  (q.pc = "done" /\ q.out.http = 429)

(***************************************************************************)
(* SpecStale: the lazy status update of the evaluators beside              *)
(* RenewSubscription.  The evaluator reads the project, and the update it  *)
(* starts in a goroutine reaches the store at any later moment.            *)
(***************************************************************************)
StaleTimes == {0, 3, 4}

TickStale == Tick(StaleTimes)

NextStale ==
    \/ TickStale
    \/ \E pid \in ProjectIds : EvalRoute(pid)
    \/ \E pid \in ProjectIds : EvalHandler(pid)
    \/ ApplyStatusWrite
    \/ \E k \in 1..MaxRenewals, pid \in ProjectIds :
          RenewSubscriptionRead(k, pid, 1, FALSE, 0, FALSE)
    \/ \E k \in 1..MaxRenewals : RenewSubscriptionWrite(k)

SpecStale == InitDeleted /\ [][NextStale]_vars

\* a renewal of the project has completed
Renewed(pid) ==
    \E k \in 1..MaxRenewals :
        /\ renewals[k].pc = "done"
        /\ renewals[k].project_id = pid

\* C29: when a lazy status = expired update reaches the store after a
\* renewal of the project has completed and the renewed expiry_date is still
\* ahead, the project keeps status active and the renewed expiry_date.
C29_StaleExpiryWriteKeepsRenewal ==
    [][\A w \in pendingStatus :
          (/\ pendingStatus' = pendingStatus \ {w}
           /\ w.status = "expired"
           /\ Renewed(w.project_id)
           /\ projects[w.project_id].status = "active"
           /\ After(projects[w.project_id].expiry_date, now)) =>
              /\ projects'[w.project_id].status = "active"
              /\ projects'[w.project_id].expiry_date =
                    projects[w.project_id].expiry_date]_vars

(***************************************************************************)
(* Concurrent renewals (SpecRenew)                                         *)
(***************************************************************************)
\* a completed RenewSubscription that extended from the expiry_date it read
ExtendedFromExpiry(k) ==
    /\ renewals[k].pc = "done"
    /\ renewals[k].kind = "RenewSubscription"
    /\ ~renewals[k].from_now
    /\ ~After(renewals[k].at, renewals[k].old_expiry)

\* no renewal other than k1 and k2 has written the project
OnlyRenewals(k1, k2) ==
    \A k \in 1..MaxRenewals \ {k1, k2} :
        \/ renewals[k].pc \in {"idle", "rejected", "write"}
        \/ renewals[k].kind = "ExtendSubscription"

\* C30: once two RenewSubscription calls of m1 and m2 months on the same
\* unexpired project have both completed, the stored expiry_date is the
\* expiry_date before the first of them plus m1 + m2 months, whatever the
\* order of their reads and writes.
C30_ConcurrentRenewalsBothCount ==
    \A k1, k2 \in 1..MaxRenewals :
        (/\ k1 # k2
         /\ ExtendedFromExpiry(k1)
         /\ ExtendedFromExpiry(k2)
         /\ renewals[k1].project_id = renewals[k2].project_id
         /\ renewals[k1].old_expiry <= renewals[k2].old_expiry
         /\ OnlyRenewals(k1, k2)) =>
            projects[renewals[k1].project_id].expiry_date =
               renewals[k1].old_expiry
                  + (renewals[k1].months + renewals[k2].months) * MonthTicks

=============================================================================
